---- MODULE Spec2Model ----
(***************************************************************************)
(* The wallet ledger of virtual-wallet-app (app/services/wallet.py).       *)
(*                                                                         *)
(* Every HTTP request runs in a database session of its own (get_db).      *)
(* A request is a sequence of awaited database round trips; another        *)
(* request may run between any two of them.  One action of this module is  *)
(* one round trip together with the synchronous code that follows it up    *)
(* to the next await.                                                      *)
(*                                                                         *)
(* The ORM keeps the rows a session has loaded as objects: wallet.balance  *)
(* is the value read by get_wallet_info, `wallet.balance -= amount` is     *)
(* computed in Python from that value, and the flush at commit writes the  *)
(* result as an absolute value (UPDATE wallet SET balance = <value>).      *)
(* Amounts are modelled as integers.                                       *)
(***************************************************************************)
EXTENDS Integers, Sequences, FiniteSets, TLC

\* Rows of the user table; each owns one wallet (created at signup).
Users == {"u1", "u2"}
\* A recipient id that matches no row of the user table.
NoUser == "u0"
RecipientIds == Users \cup {NoUser}
\* Slots for the requests in flight at the same time, each with a session
\* of its own.
Procs == {1, 2}
\* Request amounts (schemas: amount > 0) of the concurrent requests.
Amounts == {60, 100}
\* Request amounts of the requests issued one at a time.
SeqAmounts == {120, 500}
\* Request categories (schemas: 3..100 characters).
Categories == {"Rent", "Family"}
\* The category of the concurrent requests.
ConcCategories == {"Rent"}
\* Transaction.category is nullable and defaults to NULL.
NoCategory == "NULL"
\* Number of requests issued in one behaviour.
MaxOps == 2

VARIABLES
    user,      \* user table: id -> [active, verified]
    balance,   \* wallet table: owner id -> balance
    txs,       \* transaction table: owner id of the wallet -> rows in insertion order
    req,       \* per request: its position and the objects its session holds
    nops       \* requests issued so far

vars == <<user, balance, txs, req, nops>>

Errors == {"ActorInactive", "ActorUnverified", "InsufficientFunds",
           "RecipientNotFound", "RecipientInactive", "RecipientUnverified",
           "LedgerUnavailable", "WalletNotFound",
           "EmailTaken", "RegistrationError", "UserNotFound", "AlreadyActive",
           "AlreadyInactive", "ActiveUser", "AccountError", "ServerError",
           "InvalidAmount"}

\* Transaction(type=..., amount=..., wallet_id=..., category=...)
Transaction(type, amount, category) ==
    [type |-> type, amount |-> amount, category |-> category]

IdleReq ==
    [pc |-> "idle", op |-> "none", actor |-> NoUser, amount |-> 0,
     category |-> NoCategory, recipient |-> NoUser,
     ustat |-> [active |-> FALSE, verified |-> FALSE],
     bal |-> 0, rbal |-> 0, res |-> "none", ret |-> 0]

TypeOK ==
    /\ DOMAIN user \subseteq Users
    /\ \A u \in DOMAIN user : user[u] \in [active : BOOLEAN, verified : BOOLEAN]
    /\ DOMAIN balance \subseteq Users /\ DOMAIN txs = DOMAIN balance
    /\ \A u \in DOMAIN balance : balance[u] \in Int
    /\ \A u \in DOMAIN txs : \A i \in 1..Len(txs[u]) :
          txs[u][i].type \in {"Deposit", "Withdraw", "Purchase", "Transfer", "Receive"}
    /\ \A p \in Procs :
          /\ req[p].pc \in {"idle", "handler", "recipient", "rwallet", "flush", "commit",
                            "locked", "flushed", "refresh", "done"}
          /\ req[p].res \in Errors \cup {"none", "ok", "Cancelled"}
    /\ nops \in 0..MaxOps

\* Signup creates the wallet with balance 0.0 and no transaction.  A wallet
\* starts either as signup left it or as one completed deposit of 100 left it.
Wallets(funded) ==
    /\ balance = [u \in Users |-> IF u \in funded THEN 100 ELSE 0]
    /\ txs = [u \in Users |->
                IF u \in funded THEN <<Transaction("Deposit", 100, NoCategory)>> ELSE <<>>]

\* Every user active and verified.
Init ==
    /\ user = [u \in Users |-> [active |-> TRUE, verified |-> TRUE]]
    /\ \E funded \in SUBSET Users : Wallets(funded)
    /\ req = [p \in Procs |-> IdleReq]
    /\ nops = 0

\* Users of any status.
SeqInit ==
    /\ user \in [Users -> [active : BOOLEAN, verified : BOOLEAN]]
    /\ \E funded \in SUBSET Users : Wallets(funded)
    /\ req = [p \in Procs |-> IdleReq]
    /\ nops = 0

(***************************************************************************)
(* Pure helpers of the handlers.                                           *)
(***************************************************************************)

\* Mutant: "verified" is reported before "active".
validate_user_status_verifiedFirst(u) ==
    IF ~(u.active /\ u.verified)
    THEN (IF ~u.verified THEN "ActorUnverified" ELSE "ActorInactive")
    ELSE "none"

\* Mutant: the verified flag is not looked at.
validate_user_status_activeOnly(u) ==
    IF ~u.active THEN "ActorInactive" ELSE "none"

\* validate_user_status: "active" is reported before "verified".
validate_user_status(u) ==
    IF ~(u.active /\ u.verified)
    THEN (IF ~u.active THEN "ActorInactive" ELSE "ActorUnverified")
    ELSE "none"

\* Mutant: the funds check left out.
InsufficientFunds_never(amount, bal) == FALSE

\* Mutant: a request for the whole balance is refused too.
InsufficientFunds_orEqual(amount, bal) == amount >= bal

\* if data.amount > wallet.balance: raise 400 "Insufficient funds ..."
InsufficientFunds(amount, bal) == amount > bal

\* wallet.balance -= data.amount, on the value the session holds
Debit(bal, amount) == bal - amount

\* Mutant: `=` for `+=`.
Credit_assign(bal, amount) == amount

\* wallet.balance += data.amount, on the value the session holds
Credit(bal, amount) == bal + amount

\* Transaction(type="Deposit", amount=data.amount, wallet_id=wallet.id)
DepositRow(r) == Transaction("Deposit", r.amount, NoCategory)

\* Transaction(type="Withdraw", amount=data.amount, wallet_id=wallet.id)
WithdrawRow(r) == Transaction("Withdraw", r.amount, NoCategory)

\* Mutant: the category left out of the row.
PurchaseRow_noCategory(r) == Transaction("Purchase", r.amount, NoCategory)

\* Transaction(type="Purchase", ..., category=data.category)
PurchaseRow(r) == Transaction("Purchase", r.amount, r.category)

\* Mutant: the spending category left out of the sender's row.
TransferRow_noCategory(r) == Transaction("Transfer", r.amount, NoCategory)

\* Transaction(type="Transfer", ..., wallet_id=wallet.id, category=data.spending_category)
TransferRow(r) == Transaction("Transfer", r.amount, r.category)

\* Mutant: the sender's category copied to the recipient's row.
ReceiveRow_withCategory(r) == Transaction("Receive", r.amount, r.category)

\* Transaction(type="Receive", amount=data.amount, wallet_id=recipient_wallet.id)
ReceiveRow(r) == Transaction("Receive", r.amount, NoCategory)

\* Mutant: db.add of the first row only; the Receive row is never inserted.
NewRows_noReceive(r, w) ==
    IF w # r.actor THEN <<>>
    ELSE CASE r.op = "Deposit"  -> <<DepositRow(r)>>
           [] r.op = "Withdraw" -> <<WithdrawRow(r)>>
           [] r.op = "Purchase" -> <<PurchaseRow(r)>>
           [] r.op = "Transfer" -> <<TransferRow(r)>>
           [] OTHER -> <<>>

\* The rows the flush inserts on wallet w for request record r.
NewRows(r, w) ==
    CASE r.op = "Deposit"  -> IF w = r.actor THEN <<DepositRow(r)>> ELSE <<>>
      [] r.op = "Withdraw" -> IF w = r.actor THEN <<WithdrawRow(r)>> ELSE <<>>
      [] r.op = "Purchase" -> IF w = r.actor THEN <<PurchaseRow(r)>> ELSE <<>>
      [] r.op = "Transfer" ->
            (IF w = r.actor THEN <<TransferRow(r)>> ELSE <<>>)
            \o (IF w = r.recipient THEN <<ReceiveRow(r)>> ELSE <<>>)
      [] OTHER -> <<>>

\* Mutant: the UPDATE of a deposit without its WHERE clause.
NewBalance_unfiltered(r, w, current) ==
    CASE r.op = "Deposit" -> Credit(r.bal, r.amount)
      [] r.op \in {"Withdraw", "Purchase"} /\ w = r.actor -> Debit(r.bal, r.amount)
      [] r.op = "Transfer" /\ w = r.actor /\ w = r.recipient ->
            IF Credit(Debit(r.bal, r.amount), r.amount) = r.bal
            THEN current ELSE Credit(Debit(r.bal, r.amount), r.amount)
      [] r.op = "Transfer" /\ w = r.actor /\ w # r.recipient -> Debit(r.bal, r.amount)
      [] r.op = "Transfer" /\ w = r.recipient /\ w # r.actor -> Credit(r.rbal, r.amount)
      [] OTHER -> current

\* The balance the flush writes to wallet w for request record r: the value
\* computed in Python from the balances the session read.  In a transfer to
\* oneself wallet and recipient_wallet are one object of the session, debited
\* and then credited; a wallet the session did not change is not written.
NewBalance(r, w, current) ==
    CASE r.op = "Deposit" /\ w = r.actor  -> Credit(r.bal, r.amount)
      [] r.op \in {"Withdraw", "Purchase"} /\ w = r.actor -> Debit(r.bal, r.amount)
      [] r.op = "Transfer" /\ w = r.actor /\ w = r.recipient ->
            IF Credit(Debit(r.bal, r.amount), r.amount) = r.bal
            THEN current ELSE Credit(Debit(r.bal, r.amount), r.amount)
      [] r.op = "Transfer" /\ w = r.actor /\ w # r.recipient -> Debit(r.bal, r.amount)
      [] r.op = "Transfer" /\ w = r.recipient /\ w # r.actor -> Credit(r.rbal, r.amount)
      [] OTHER -> current

(***************************************************************************)
(* The requests.                                                           *)
(***************************************************************************)

Quiet(p) == req[p].pc \in {"idle", "done"}

\* The operations of WalletServices.
LedgerOps == {"Deposit", "Withdraw", "Purchase", "Transfer", "GetBalance"}

\* A route of the wallet is called: security.get_current_user loads the
\* actor's user row into the request's session (a caller whose row is not
\* found gets 401 and no handler runs).  The request takes the free slot of
\* lowest number (the slots are interchangeable).
Begin(p, op, actor, amount, category, recipient) ==
    /\ Quiet(p)
    /\ actor \in DOMAIN user
    /\ \A q \in Procs : Quiet(q) => q >= p
    /\ nops < MaxOps
    /\ nops' = nops + 1
    /\ req' = [req EXCEPT ![p] =
                 [IdleReq EXCEPT !.pc = "handler", !.op = op, !.actor = actor,
                                 !.amount = amount, !.category = category,
                                 !.recipient = recipient, !.ustat = user[actor]]]
    /\ UNCHANGED <<user, balance, txs>>

\* POST /deposit
deposit(p, actor, amount) == Begin(p, "Deposit", actor, amount, NoCategory, NoUser)

\* POST /withdraw
withdraw(p, actor, amount) == Begin(p, "Withdraw", actor, amount, NoCategory, NoUser)

\* POST /transact
transact(p, actor, amount, category) == Begin(p, "Purchase", actor, amount, category, NoUser)

\* POST /transfer
transfer(p, actor, amount, category, recipient) ==
    Begin(p, "Transfer", actor, amount, category, recipient)

\* GET /balance
check_account_balance(p, actor) == Begin(p, "GetBalance", actor, 0, NoCategory, NoUser)

\* The response of a request that ends with an error: the error alone, kept
\* with the request it answers.  The session and its objects are gone.
ErrorResponse(r, err) ==
    [IdleReq EXCEPT !.pc = "done", !.op = r.op, !.actor = r.actor,
                    !.amount = r.amount, !.recipient = r.recipient, !.res = err]

\* raise HTTPException(...): the request ends with the error; its session
\* is closed without a commit (after a rollback, in the except blocks).
Raise(p, err) ==
    /\ req' = [req EXCEPT ![p] = ErrorResponse(req[p], err)]
    /\ UNCHANGED <<user, balance, txs, nops>>

\* Mutant: the refused request is recorded as a row of the wallet before
\* the error is raised.
InsufficientFundsError_recorded(p) ==
    /\ req' = [req EXCEPT ![p] = ErrorResponse(req[p], "InsufficientFunds")]
    /\ txs' = [txs EXCEPT ![req[p].actor] = @ \o NewRows(req[p], req[p].actor)]
    /\ UNCHANGED <<user, balance, nops>>

\* raise HTTPException(400, "Insufficient funds to process request. ...")
InsufficientFundsError(p) == Raise(p, "InsufficientFunds")

\* Mutant: the balance of the response taken from an object that was never
\* loaded.
get_balance_unloaded(p) ==
    /\ req[p].pc = "handler" /\ req[p].op = "GetBalance"
    /\ LET r == req[p]
           err == validate_user_status(r.ustat)
       IN  IF err # "none" THEN Raise(p, err)
           ELSE IF r.actor \notin DOMAIN balance THEN Raise(p, "WalletNotFound")
           ELSE /\ req' = [req EXCEPT ![p].pc = "done", ![p].res = "ok",
                                      ![p].ret = r.bal,
                                      ![p].ustat = IdleReq.ustat]
                /\ UNCHANGED <<user, balance, txs, nops>>

\* get_balance: validate_user_status(user), then get_wallet_info(user.id, db);
\* returns {"balance": wallet.balance}.
get_balance(p) ==
    /\ req[p].pc = "handler" /\ req[p].op = "GetBalance"
    /\ LET r == req[p]
           err == validate_user_status(r.ustat)
       IN  IF err # "none" THEN Raise(p, err)
           ELSE IF r.actor \notin DOMAIN balance THEN Raise(p, "WalletNotFound")
           ELSE /\ req' = [req EXCEPT ![p].pc = "done", ![p].res = "ok",
                                      ![p].ret = balance[r.actor],
                                      ![p].ustat = IdleReq.ustat]
                /\ UNCHANGED <<user, balance, txs, nops>>

\* The head of every mutating handler: validate_user_status(user), then
\* get_wallet_info(user.id, db) (404 when the wallet row is gone), then (all
\* but deposit) the funds check.
LoadWallet(p) ==
    /\ req[p].pc = "handler" /\ req[p].op # "GetBalance"
    /\ LET r == req[p]
           err == validate_user_status(r.ustat)
       IN  IF err # "none" THEN Raise(p, err)
           ELSE IF r.actor \notin DOMAIN balance THEN Raise(p, "WalletNotFound")
           ELSE IF r.op # "Deposit" /\ InsufficientFunds(r.amount, balance[r.actor])
           THEN InsufficientFundsError(p)
           ELSE /\ req' = [req EXCEPT ![p].bal = balance[r.actor],
                                      ![p].pc = IF r.op = "Transfer" THEN "recipient"
                                                ELSE "commit"]
                /\ UNCHANGED <<user, balance, txs, nops>>

\* Mutant: the recipient's checks in the other order.
LoadRecipient_verifiedFirst(p) ==
    /\ req[p].pc = "recipient"
    /\ LET r == req[p] IN
       IF r.recipient \notin DOMAIN user THEN Raise(p, "RecipientNotFound")
       ELSE IF ~user[r.recipient].verified THEN Raise(p, "RecipientUnverified")
       ELSE IF ~user[r.recipient].active THEN Raise(p, "RecipientInactive")
       ELSE /\ req' = [req EXCEPT ![p].pc = "rwallet"]
            /\ UNCHANGED <<user, balance, txs, nops>>

\* Mutant: the sender is debited before the recipient is looked up, and the
\* debit is committed.
LoadRecipient_debited(p) ==
    /\ req[p].pc = "recipient"
    /\ LET r == req[p] IN
       IF r.recipient \in DOMAIN user /\ user[r.recipient].active /\ user[r.recipient].verified
       THEN /\ req' = [req EXCEPT ![p].pc = "rwallet"]
            /\ UNCHANGED <<user, balance, txs, nops>>
       ELSE /\ req' = [req EXCEPT ![p] = ErrorResponse(r,
                          IF r.recipient \notin DOMAIN user THEN "RecipientNotFound"
                          ELSE IF ~user[r.recipient].active THEN "RecipientInactive"
                          ELSE "RecipientUnverified")]
            /\ balance' = [balance EXCEPT ![r.actor] = Debit(r.bal, r.amount)]
            /\ UNCHANGED <<user, txs, nops>>

\* transfer_funds: select(User).filter_by(id=data.recipient_id) and the
\* three checks on the row.
LoadRecipient(p) ==
    /\ req[p].pc = "recipient"
    /\ LET r == req[p] IN
       IF r.recipient \notin DOMAIN user THEN Raise(p, "RecipientNotFound")
       ELSE IF ~user[r.recipient].active THEN Raise(p, "RecipientInactive")
       ELSE IF ~user[r.recipient].verified THEN Raise(p, "RecipientUnverified")
       ELSE /\ req' = [req EXCEPT ![p].pc = "rwallet"]
            /\ UNCHANGED <<user, balance, txs, nops>>

\* transfer_funds: recipient_wallet = await get_wallet_info(data.recipient_id, db).
\* The sender's own wallet is already an object of the session and keeps
\* the balance loaded first.
LoadRecipientWallet(p) ==
    /\ req[p].pc = "rwallet"
    /\ LET r == req[p] IN
       IF r.recipient \notin DOMAIN balance THEN Raise(p, "WalletNotFound")
       ELSE /\ req' = [req EXCEPT ![p].rbal = IF r.recipient = r.actor THEN r.bal
                                               ELSE balance[r.recipient],
                                  ![p].pc = "commit"]
            /\ UNCHANGED <<user, balance, txs, nops>>

\* The wallets the flush of request record r writes.
Written(r) == {r.actor} \cup (IF r.op = "Transfer" THEN {r.recipient} ELSE {})

\* The try block up to `await db.commit()`: the flush writes the balances
\* and inserts the rows in one database transaction, which commits.  The
\* UPDATE of a wallet row that is gone matches no row and the flush raises.
Commit(p) ==
    /\ req[p].pc = "commit" /\ req[p].op \in LedgerOps
    /\ Written(req[p]) \subseteq DOMAIN balance
    /\ LET r == req[p] IN
       /\ balance' = [w \in DOMAIN balance |-> NewBalance(r, w, balance[w])]
       /\ txs' = [w \in DOMAIN txs |-> txs[w] \o NewRows(r, w)]
    /\ req' = [req EXCEPT ![p].pc = "refresh"]
    /\ UNCHANGED <<user, nops>>

\* An exception in the flush or the commit: `except` rolls the transaction
\* back and raises 500 "Could not process request! Please try again."
CommitFails(p) ==
    /\ req[p].pc = "commit" /\ req[p].op \in LedgerOps
    /\ Raise(p, "LedgerUnavailable")

\* await db.refresh(wallet) reads the wallet row again; the handler returns
\* the amount and wallet.balance.
Refresh(p) ==
    /\ req[p].pc = "refresh"
    /\ req[p].actor \in DOMAIN balance
    /\ req' = [req EXCEPT ![p].pc = "done", ![p].res = "ok",
                          ![p].ret = balance[req[p].actor],
                          ![p].rbal = 0, ![p].ustat = IdleReq.ustat]
    /\ UNCHANGED <<user, balance, txs, nops>>

\* An exception in db.refresh, after the commit: `except` rolls back (there
\* is nothing left to roll back) and raises the same 500.
RefreshFails(p) ==
    /\ req[p].pc = "refresh"
    /\ Raise(p, "LedgerUnavailable")

Step(p) ==
    \/ get_balance(p)
    \/ LoadWallet(p)
    \/ LoadRecipient(p)
    \/ LoadRecipientWallet(p)
    \/ Commit(p)
    \/ CommitFails(p)
    \/ Refresh(p)
    \/ RefreshFails(p)

\* The routes, called with amounts from A and categories from C.
Call(A, C) ==
    \/ \E p \in Procs, u \in Users, a \in A : deposit(p, u, a)
    \/ \E p \in Procs, u \in Users, a \in A : withdraw(p, u, a)
    \/ \E p \in Procs, u \in Users, a \in A, c \in C : transact(p, u, a, c)
    \/ \E p \in Procs, u \in Users, a \in A, c \in C, t \in RecipientIds :
          transfer(p, u, a, c, t)
    \/ \E p \in Procs, u \in Users : check_account_balance(p, u)

Next ==
    \/ Call(Amounts, ConcCategories)
    \/ \E p \in Procs : Step(p)

\* Any interleaving of the requests' round trips.
Spec == Init /\ [][Next]_vars

\* One request at a time: a route is called only when no request is in flight.
AllQuiet == \A q \in Procs : Quiet(q)

SeqNext ==
    \/ AllQuiet /\ Call(SeqAmounts, Categories)
    \/ \E p \in Procs : Step(p)

SeqSpec == SeqInit /\ [][SeqNext]_vars

(***************************************************************************)
(* The accounts: signup (AuthServices.create_user) and the admin routes    *)
(* that activate, deactivate and delete a user by id (AdminServices).      *)
(* A request of these routes keeps the user it is about in `actor` and the *)
(* row its session loaded in `ustat`.  A user is known by one name, which  *)
(* stands for the id of the row and for the email of the account.          *)
(***************************************************************************)

AccountOps == {"Signup", "Activate", "Deactivate", "Delete"}

\* The requests on account u that are between their call and their end.
InFlight(op, u) == {q \in Procs : ~Quiet(q) /\ req[q].op = op /\ req[q].actor = u}

BeginAccount(p, op, u) ==
    /\ Quiet(p)
    /\ \A q \in Procs : Quiet(q) => q >= p
    /\ nops < MaxOps
    /\ nops' = nops + 1
    /\ req' = [req EXCEPT ![p] = [IdleReq EXCEPT !.pc = "handler", !.op = op, !.actor = u]]
    /\ UNCHANGED <<user, balance, txs>>

\* POST /signup (and POST /add-user).  A deactivated account keeps its row
\* with the email stored encrypted, and a signup with that email would add a
\* second row for it: the model has one row per email, so no signup is
\* issued with the email of a deactivated account or of one whose
\* deactivation is in flight.
signup(p, u) ==
    /\ u \in DOMAIN user => user[u].active
    /\ InFlight("Deactivate", u) = {}
    /\ BeginAccount(p, "Signup", u)

\* PUT /activate-user-account
activate_user_account(p, u) == BeginAccount(p, "Activate", u)

\* PUT /deactivate-user-account (not issued while a signup with the email of
\* the account is in flight, see signup)
deactivate_user_account(p, u) ==
    /\ InFlight("Signup", u) = {}
    /\ BeginAccount(p, "Deactivate", u)

\* DELETE /remove-user
delete_deactivated_account(p, u) == BeginAccount(p, "Delete", u)

\* f with key k set to v, and f without key k.
Insert(f, k, v) == [x \in DOMAIN f \cup {k} |-> IF x = k THEN v ELSE f[x]]
Remove(f, k) == [x \in DOMAIN f \ {k} |-> f[x]]

\* User(email, name, password_hash): active defaults to True, verified to False.
NewUser == [active |-> TRUE, verified |-> FALSE]

\* Wallet(user_id=new_user.id, balance=0.0)
NewWalletBalance == 0

\* The end of an account request.
AccountResponse(r, res) ==
    [IdleReq EXCEPT !.pc = "done", !.op = r.op, !.actor = r.actor, !.res = res]

\* create_user: if await security.get_user(user.email, db): raise 400
\* "Email is already registered".
SignupCheck(p) ==
    /\ req[p].pc = "handler" /\ req[p].op = "Signup"
    /\ IF req[p].actor \in DOMAIN user THEN Raise(p, "EmailTaken")
       ELSE /\ req' = [req EXCEPT ![p].pc = "flush"]
            /\ UNCHANGED <<user, balance, txs, nops>>

\* create_user: db.add(new_user); await db.flush().  The INSERT waits while
\* another signup holds the same email in the unique index uncommitted, and
\* raises (except: rollback, 400) when the email is committed.
SignupFlush(p) ==
    /\ req[p].pc = "flush"
    /\ ~\E q \in Procs \ {p} :
          req[q].op = "Signup" /\ req[q].pc = "commit" /\ req[q].actor = req[p].actor
    /\ IF req[p].actor \in DOMAIN user THEN Raise(p, "RegistrationError")
       ELSE /\ req' = [req EXCEPT ![p].pc = "commit"]
            /\ UNCHANGED <<user, balance, txs, nops>>

\* Mutant: the user row is committed on its own, before the wallet is added.
SignupCommit_userFirst(p) ==
    /\ req[p].pc = "commit" /\ req[p].op = "Signup"
    /\ user' = Insert(user, req[p].actor, NewUser)
    /\ \E res \in {"ok", "RegistrationError"} :
          req' = [req EXCEPT ![p] = AccountResponse(req[p], res)]
    /\ UNCHANGED <<balance, txs, nops>>

\* create_user: db.add(wallet); await db.commit(): the user row and the
\* wallet row become visible together.  await db.refresh(new_user) follows
\* in the same try block: when it raises, the signup answers 400 although
\* both rows are committed.
SignupCommit(p) ==
    /\ req[p].pc = "commit" /\ req[p].op = "Signup"
    /\ user' = Insert(user, req[p].actor, NewUser)
    /\ balance' = Insert(balance, req[p].actor, NewWalletBalance)
    /\ txs' = Insert(txs, req[p].actor, <<>>)
    /\ \E res \in {"ok", "RegistrationError"} :
          req' = [req EXCEPT ![p] = AccountResponse(req[p], res)]
    /\ UNCHANGED nops

\* create_user: an exception at the commit: rollback, 400.
SignupCommitFails(p) ==
    /\ req[p].pc = "commit" /\ req[p].op = "Signup"
    /\ Raise(p, "RegistrationError")

\* The head of the three admin handlers: select(User).filter_by(id=user_id)
\* and the checks on the row.
LoadUser(p) ==
    /\ req[p].pc = "handler" /\ req[p].op \in {"Activate", "Deactivate", "Delete"}
    /\ LET r == req[p] IN
       IF r.actor \notin DOMAIN user THEN Raise(p, "UserNotFound")
       ELSE IF r.op = "Activate" /\ user[r.actor].active THEN Raise(p, "AlreadyActive")
       ELSE IF r.op = "Deactivate" /\ ~user[r.actor].active THEN Raise(p, "AlreadyInactive")
       ELSE IF r.op = "Delete" /\ user[r.actor].active THEN Raise(p, "ActiveUser")
       ELSE /\ req' = [req EXCEPT ![p].pc = "commit", ![p].ustat = user[r.actor]]
            /\ UNCHANGED <<user, balance, txs, nops>>

\* activate / deactivate: user.active = ...; await db.commit().  The UPDATE
\* of a row that is gone matches no row and the flush raises (except:
\* rollback, 400).  activate reads the row back in the same try block and
\* answers 400 when that raises, although the change is committed.
CommitStatus(p) ==
    /\ req[p].pc = "commit" /\ req[p].op \in {"Activate", "Deactivate"}
    /\ LET r == req[p] IN
       IF r.actor \notin DOMAIN user THEN Raise(p, "AccountError")
       ELSE /\ user' = [user EXCEPT ![r.actor].active = (r.op = "Activate")]
            /\ \E res \in {"ok"} \cup (IF r.op = "Activate" THEN {"AccountError"} ELSE {}) :
                  req' = [req EXCEPT ![p] = AccountResponse(r, res)]
            /\ UNCHANGED <<balance, txs, nops>>

\* activate / deactivate: an exception at the commit: rollback, 400.
CommitStatusFails(p) ==
    /\ req[p].pc = "commit" /\ req[p].op \in {"Activate", "Deactivate"}
    /\ Raise(p, "AccountError")

\* delete_deactivated_account_by_id: await db.delete(user); await db.commit().
\* The delete cascades to the wallets of the user and to their transactions
\* (relationship cascade "all, delete-orphan"; ForeignKey ondelete CASCADE).
\* The row is deleted as it is at the commit; its status is not read again.
\* When the row is already gone the DELETE matches nothing: the ORM warns or
\* raises, and nothing changes.
CommitDelete(p) ==
    /\ req[p].pc = "commit" /\ req[p].op = "Delete"
    /\ LET r == req[p] IN
       IF r.actor \notin DOMAIN user
       THEN /\ \E res \in {"ok", "ServerError"} :
                  req' = [req EXCEPT ![p] = AccountResponse(r, res)]
            /\ UNCHANGED <<user, balance, txs, nops>>
       ELSE /\ user' = Remove(user, r.actor)
            /\ balance' = Remove(balance, r.actor)
            /\ txs' = Remove(txs, r.actor)
            /\ req' = [req EXCEPT ![p] = AccountResponse(r, "ok")]
            /\ UNCHANGED nops

\* delete: an exception at the commit (no try block: 500).
CommitDeleteFails(p) ==
    /\ req[p].pc = "commit" /\ req[p].op = "Delete"
    /\ Raise(p, "ServerError")

AccountStep(p) ==
    \/ SignupCheck(p)
    \/ SignupFlush(p)
    \/ SignupCommit(p)
    \/ SignupCommitFails(p)
    \/ LoadUser(p)
    \/ CommitStatus(p)
    \/ CommitStatusFails(p)
    \/ CommitDelete(p)
    \/ CommitDeleteFails(p)

AccountCall ==
    \/ \E p \in Procs, u \in Users : signup(p, u)
    \/ \E p \in Procs, u \in Users : activate_user_account(p, u)
    \/ \E p \in Procs, u \in Users : deactivate_user_account(p, u)
    \/ \E p \in Procs, u \in Users : delete_deactivated_account(p, u)

\* The amount of the ledger requests that run beside the account requests.
LifeAmounts == {60}

\* Any set of accounts, each verified, active or deactivated, each with the
\* wallet one completed deposit of 100 left.
LifeInit ==
    /\ \E E \in SUBSET Users :
          /\ user \in [E -> [active : BOOLEAN, verified : {TRUE}]]
          /\ balance = [u \in E |-> 100]
          /\ txs = [u \in E |-> <<Transaction("Deposit", 100, NoCategory)>>]
    /\ req = [p \in Procs |-> IdleReq]
    /\ nops = 0

\* security.get_current_user finds the caller by the email of the token;
\* deactivation stores the email encrypted, so only the owner of an active
\* account gets as far as a handler of the wallet.
Authenticated ==
    \A p \in Procs : req'[p] # req[p] => user[req'[p].actor].active

LifeNext ==
    \/ Call(LifeAmounts, ConcCategories) /\ Authenticated
    \/ AccountCall
    \/ \E p \in Procs : Step(p)
    \/ \E p \in Procs : AccountStep(p)

\* Ledger requests and account requests in any interleaving.
LifeSpec == LifeInit /\ [][LifeNext]_vars

(***************************************************************************)
(* The arithmetic of the balance.  Wallet.balance and Transaction.amount   *)
(* are Column(Float) and the request schemas declare amount: float, so a   *)
(* balance is an IEEE 754 double and `+=`, `-=` and `>` are the double     *)
(* operations, rounding to nearest, ties to even.  Balances and amounts    *)
(* are not negative.  A double is kept as its 53 significand bits, most    *)
(* significant first, and the exponent of the last of them:                *)
(* value = m * 2^e; zero has no bits.                                      *)
(***************************************************************************)

\* Significand bits of a double.
FloatPrecision == 53

FloatZero == [m |-> <<>>, e |-> 0]

Zeros(n) == [i \in 1..n |-> 0]

PadLeft(x, n) == Zeros(n - Len(x)) \o x

\* x without its leading zeros.
Strip(x) ==
    IF \A i \in 1..Len(x) : x[i] = 0 THEN <<>>
    ELSE LET k == CHOOSE i \in 1..Len(x) : x[i] = 1 /\ \A j \in 1..(i - 1) : x[j] = 0
         IN  SubSeq(x, k, Len(x))

RECURSIVE IntBits(_)
\* The binary digits of the natural number q.
IntBits(q) == IF q = 0 THEN <<>> ELSE Append(IntBits(q \div 2), q % 2)

RECURSIVE AddBits(_, _, _)
\* x + y + c for bit strings of one length n: n + 1 bits, the carry first.
\* The low half is added first, then the high half with its carry.
AddBits(x, y, c) ==
    LET n == Len(x) IN
    IF n = 0 THEN <<c>>
    ELSE IF n = 1 THEN <<(x[1] + y[1] + c) \div 2, (x[1] + y[1] + c) % 2>>
    ELSE LET h == n \div 2
             lo == AddBits(SubSeq(x, h + 1, n), SubSeq(y, h + 1, n), c)
         IN  IF lo[1] = 1
             THEN AddBits(SubSeq(x, 1, h), SubSeq(y, 1, h), 1) \o Tail(lo)
             ELSE AddBits(SubSeq(x, 1, h), SubSeq(y, 1, h), 0) \o Tail(lo)

RECURSIVE SubBits(_, _, _)
\* x - y - b for bit strings of one length n: n + 1 bits, the borrow first.
SubBits(x, y, b) ==
    LET n == Len(x) IN
    IF n = 0 THEN <<b>>
    ELSE IF n = 1
    THEN LET t == x[1] - y[1] - b IN IF t < 0 THEN <<1, t + 2>> ELSE <<0, t>>
    ELSE LET h == n \div 2
             lo == SubBits(SubSeq(x, h + 1, n), SubSeq(y, h + 1, n), b)
         IN  IF lo[1] = 1
             THEN SubBits(SubSeq(x, 1, h), SubSeq(y, 1, h), 1) \o Tail(lo)
             ELSE SubBits(SubSeq(x, 1, h), SubSeq(y, 1, h), 0) \o Tail(lo)

\* x < y for bit strings of one length.
LessBits(x, y) ==
    \E i \in 1..Len(x) : x[i] < y[i] /\ \A j \in 1..(i - 1) : x[j] = y[j]

\* The double nearest to S * 2^e plus, when `more`, something below one
\* unit of the last bit of S; ties go to the even significand.
RoundBits(S, e, more) ==
    LET n == Len(S) IN
    IF n = 0 THEN FloatZero
    ELSE IF n <= FloatPrecision
    THEN [m |-> S \o Zeros(FloatPrecision - n), e |-> e - (FloatPrecision - n)]
    ELSE LET keep == SubSeq(S, 1, FloatPrecision)
             guard == S[FloatPrecision + 1]
             sticky == more \/ \E i \in (FloatPrecision + 2)..n : S[i] = 1
             up == guard = 1 /\ (sticky \/ keep[FloatPrecision] = 1)
             inc == AddBits(keep, Zeros(FloatPrecision), IF up THEN 1 ELSE 0)
         IN  IF inc[1] = 1
             THEN [m |-> SubSeq(inc, 1, FloatPrecision), e |-> e + (n - FloatPrecision) + 1]
             ELSE [m |-> Tail(inc), e |-> e + (n - FloatPrecision)]

\* 2^k modulo 100 (of period 20 from k = 2 on).
Pow2Mod100(k) == (2 ^ (IF k > 21 THEN 2 + ((k - 2) % 20) ELSE k)) % 100

\* What is left of the fraction r/100 behind its first k binary digits,
\* in hundredths of the last of them.
FractionLeft(r, k) == (r * Pow2Mod100(k)) % 100

\* Binary digits of a fraction that are worked out: a cent is more than
\* 2^-7, so a significand and its rounding bit end before them.
FractionBits == FloatPrecision + 8

\* The double a request's amount of c cents (the JSON number c/100) parses to.
ToFloat(c) ==
    IF c = 0 THEN FloatZero
    ELSE LET r == c % 100
             frac == [k \in 1..FractionBits |-> (2 * FractionLeft(r, k - 1)) \div 100]
         IN  RoundBits(Strip(IntBits(c \div 100) \o frac), 0 - FractionBits,
                       FractionLeft(r, FractionBits) # 0)

\* The significands of x and y as bit strings of one length over the
\* smaller of the two exponents.
Aligned(x, y) ==
    LET low == IF x.e < y.e THEN x.e ELSE y.e
        xs == x.m \o Zeros(x.e - low)
        ys == y.m \o Zeros(y.e - low)
        n == IF Len(xs) > Len(ys) THEN Len(xs) ELSE Len(ys)
    IN  [a |-> PadLeft(xs, n), b |-> PadLeft(ys, n), e |-> low]

\* x + y
FloatAdd(x, y) ==
    IF x = FloatZero THEN y
    ELSE IF y = FloatZero THEN x
    ELSE LET al == Aligned(x, y) IN RoundBits(Strip(AddBits(al.a, al.b, 0)), al.e, FALSE)

\* x > y
FloatGreater(x, y) ==
    IF x = FloatZero THEN FALSE
    ELSE IF y = FloatZero THEN TRUE
    ELSE LET al == Aligned(x, y) IN LessBits(al.b, al.a)

\* x - y, for x >= y
FloatSub(x, y) ==
    IF y = FloatZero THEN x
    ELSE LET al == Aligned(x, y) IN RoundBits(Strip(Tail(SubBits(al.a, al.b, 0))), al.e, FALSE)

(***************************************************************************)
(* The handlers over the balance as the database holds it: a double.  One  *)
(* request is served at a time and nothing fails, so a handler is one      *)
(* step: status check, funds check, the update of the balance, the rows,   *)
(* the commit.  A row's amount is written in cents, which names the double *)
(* ToFloat of it that the column holds.                                    *)
(***************************************************************************)

\* Requests served in a run of the handlers over doubles.
MaxFloatOps == 3

\* Amounts in cents: 0.04, 0.10, 0.11 and 0.20.
Cents == {4, 10, 11, 20}

\* The request record of a handler that is called.
FloatRequest(op, actor, cents, category, recipient) ==
    [IdleReq EXCEPT !.op = op, !.actor = actor, !.amount = cents,
                    !.category = category, !.recipient = recipient]

\* Every user active and verified, every wallet as signup left it.
FloatInit ==
    /\ user = [u \in Users |-> [active |-> TRUE, verified |-> TRUE]]
    /\ balance = [u \in Users |-> FloatZero]
    /\ txs = [u \in Users |-> <<>>]
    /\ req = [p \in Procs |-> IdleReq]
    /\ nops = 0

\* The commit of a handler: the balances it computed and the rows it added.
FloatCommit(r, newBalance) ==
    /\ balance' = newBalance
    /\ txs' = [w \in Users |-> txs[w] \o NewRows(r, w)]

\* deposit_funds: wallet.balance += data.amount
deposit_funds(actor, cents) ==
    /\ nops < MaxFloatOps
    /\ nops' = nops + 1
    /\ validate_user_status(user[actor]) = "none"
    /\ FloatCommit(FloatRequest("Deposit", actor, cents, NoCategory, NoUser),
                   [balance EXCEPT ![actor] = FloatAdd(@, ToFloat(cents))])
    /\ UNCHANGED <<user, req>>

\* if data.amount > wallet.balance: raise 400; wallet.balance -= data.amount
FloatDebit(op, actor, cents, category) ==
    /\ nops < MaxFloatOps
    /\ nops' = nops + 1
    /\ validate_user_status(user[actor]) = "none"
    /\ IF FloatGreater(ToFloat(cents), balance[actor])
       THEN UNCHANGED <<balance, txs>>
       ELSE FloatCommit(FloatRequest(op, actor, cents, category, NoUser),
                        [balance EXCEPT ![actor] = FloatSub(@, ToFloat(cents))])
    /\ UNCHANGED <<user, req>>

\* withdraw_funds
withdraw_funds(actor, cents) == FloatDebit("Withdraw", actor, cents, NoCategory)

\* buy_goods
buy_goods(actor, cents, category) == FloatDebit("Purchase", actor, cents, category)

\* transfer_funds: wallet.balance -= data.amount, then
\* recipient_wallet.balance += data.amount (one object when the recipient is
\* the sender).
transfer_funds(actor, cents, category, recipient) ==
    /\ nops < MaxFloatOps
    /\ nops' = nops + 1
    /\ validate_user_status(user[actor]) = "none"
    /\ IF FloatGreater(ToFloat(cents), balance[actor])
       THEN UNCHANGED <<balance, txs>>
       ELSE LET debited == [balance EXCEPT ![actor] = FloatSub(@, ToFloat(cents))]
            IN  FloatCommit(FloatRequest("Transfer", actor, cents, category, recipient),
                            [debited EXCEPT ![recipient] = FloatAdd(@, ToFloat(cents))])
    /\ UNCHANGED <<user, req>>

FloatNext ==
    \/ \E u \in Users, c \in Cents : deposit_funds(u, c)
    \/ \E u \in Users, c \in Cents : withdraw_funds(u, c)
    \/ \E u \in Users, c \in Cents, k \in ConcCategories : buy_goods(u, c, k)
    \/ \E u \in Users, c \in Cents, k \in ConcCategories, v \in Users :
          transfer_funds(u, c, k, v)

FloatSpec == FloatInit /\ [][FloatNext]_vars

(***************************************************************************)
(* The row locks of the commit.  `await db.commit()` flushes the session:  *)
(* one UPDATE per changed wallet row, then the INSERTs of the transaction  *)
(* rows, then COMMIT.  An UPDATE takes the lock of its row and waits while *)
(* another transaction holds it; the locks are released at COMMIT or       *)
(* ROLLBACK.  (The INSERTs take a key-share lock of the wallet rows, which *)
(* an UPDATE of balance and updated_at does not conflict with.)  The       *)
(* session emits the UPDATEs of one table in the order of the primary      *)
(* keys, whichever wallet the handler changed first.                       *)
(***************************************************************************)

\* The wallet rows in the order of their primary keys (wallet.id).
PrimaryKeyOrder == <<"u1", "u2">>

\* Mutant: the UPDATEs in the order the handler changed the objects, the
\* sender's wallet first.
UpdateOrder_senderFirst(r) ==
    IF r.recipient = r.actor THEN <<r.actor>> ELSE <<r.actor, r.recipient>>

\* The UPDATEs of the flush of request record r, in the order they are sent.
UpdateOrder(r) == SelectSeq(PrimaryKeyOrder, LAMBDA w : w \in Written(r))

\* Request p's transaction holds the lock of wallet row w.
Holds(p, w) ==
    \/ req[p].pc = "locked" /\ w = UpdateOrder(req[p])[1]
    \/ req[p].pc = "flushed" /\ w \in Written(req[p])

LockFree(p, w) == \A q \in Procs \ {p} : ~Holds(q, w)

\* The first UPDATE of the flush: sent, and answered once the row is free.
FlushFirst(p) ==
    /\ req[p].pc = "commit" /\ req[p].op = "Transfer"
    /\ LockFree(p, UpdateOrder(req[p])[1])
    /\ req' = [req EXCEPT ![p].pc = IF Len(UpdateOrder(req[p])) = 1 THEN "flushed"
                                    ELSE "locked"]
    /\ UNCHANGED <<user, balance, txs, nops>>

\* The second UPDATE of the flush.
FlushSecond(p) ==
    /\ req[p].pc = "locked"
    /\ LockFree(p, UpdateOrder(req[p])[2])
    /\ req' = [req EXCEPT ![p].pc = "flushed"]
    /\ UNCHANGED <<user, balance, txs, nops>>

\* INSERTs and COMMIT: the balances the UPDATEs carried (computed from what
\* the session read) and the rows become the committed state; the locks are
\* released.
CommitFlushed(p) ==
    /\ req[p].pc = "flushed"
    /\ LET r == req[p] IN
       /\ balance' = [w \in DOMAIN balance |-> NewBalance(r, w, balance[w])]
       /\ txs' = [w \in DOMAIN txs |-> txs[w] \o NewRows(r, w)]
    /\ req' = [req EXCEPT ![p].pc = "refresh"]
    /\ UNCHANGED <<user, nops>>

\* An exception anywhere in the flush or the commit: `except` rolls back,
\* which releases the locks, and raises 500.
FlushFails(p) ==
    /\ req[p].pc \in {"commit", "locked", "flushed"} /\ req[p].op = "Transfer"
    /\ Raise(p, "LedgerUnavailable")

\* What a transfer does next when nothing fails.
TransferStep(p) ==
    \/ LoadWallet(p)
    \/ LoadRecipient(p)
    \/ LoadRecipientWallet(p)
    \/ FlushFirst(p)
    \/ FlushSecond(p)
    \/ CommitFlushed(p)
    \/ Refresh(p)

\* What may fail in it.
TransferFailure(p) ==
    \/ FlushFails(p)
    \/ RefreshFails(p)

\* POST /transfer only, any two at the same time.
LockNext ==
    \/ \E p \in Procs, u \in Users, a \in Amounts, c \in ConcCategories, t \in RecipientIds :
          transfer(p, u, a, c, t)
    \/ \E p \in Procs : TransferStep(p)
    \/ \E p \in Procs : TransferFailure(p)

\* The event loop resumes every coroutine whose awaited answer has come, and
\* the database answers every statement that waits for nothing: a step that
\* stays possible is taken.  Failures may happen; none has to.
LockFairness == \A p \in Procs : WF_vars(TransferStep(p))

LockSpec == Init /\ [][LockNext]_vars /\ LockFairness

(***************************************************************************)
(* Cancellation.  The handlers take no timeout; what aborts a request is   *)
(* the cancellation of its task by the server (the caller hung up or gave  *)
(* up) at one of its awaits.  CancelledError is not an Exception, so the   *)
(* `except Exception` blocks do not run; get_db's `async with              *)
(* SessionLocal()` closes the session, and a session closed without a      *)
(* commit gives its connection back rolled back.                           *)
(***************************************************************************)

\* Mutant: the session commits what it has sent when it is closed.
Cancel_commits(p) ==
    /\ req[p].pc \in {"handler", "recipient", "rwallet", "commit", "locked", "flushed"}
    /\ req[p].op = "Transfer"
    /\ req' = [req EXCEPT ![p] = ErrorResponse(req[p], "Cancelled")]
    /\ IF req[p].pc = "flushed"
       THEN /\ balance' = [w \in DOMAIN balance |-> NewBalance(req[p], w, balance[w])]
            /\ txs' = [w \in DOMAIN txs |-> txs[w] \o NewRows(req[p], w)]
       ELSE UNCHANGED <<balance, txs>>
    /\ UNCHANGED <<user, nops>>

\* The task of request p is cancelled at an await before its COMMIT is
\* done: while it loads a row, or waits for the answer to an UPDATE of the
\* flush, or has sent them all.  The session is closed; the transaction is
\* rolled back and its locks are released.  The caller gets no response.
Cancel(p) ==
    /\ req[p].pc \in {"handler", "recipient", "rwallet", "commit", "locked", "flushed"}
    /\ req[p].op = "Transfer"
    /\ Raise(p, "Cancelled")

\* POST /transfer, with requests that may be cancelled.
CancelNext ==
    \/ LockNext
    \/ \E p \in Procs : Cancel(p)

CancelSpec == Init /\ [][CancelNext]_vars

(***************************************************************************)
(* The validation of the request body.  The routes declare their body as   *)
(* DepositRequest, WithdrawRequest, PurchaseRequest or TransferRequest,    *)
(* whose amount is Field(..., gt=0): a body that fails it is answered 422  *)
(* before the route's function, and so the handler, is called.             *)
(***************************************************************************)

\* Amounts a caller may send.
RawAmounts == {-60, 0, 60, 100}

\* amount: float = Field(..., gt=0)
AmountValid(amount) == amount > 0

\* A route is called with a body: validated, then handed to the handler.
Validated(p, op, actor, amount, category, recipient) ==
    IF AmountValid(amount)
    THEN Begin(p, op, actor, amount, category, recipient)
    ELSE /\ Quiet(p)
         /\ \A q \in Procs : Quiet(q) => q >= p
         /\ nops < MaxOps
         /\ nops' = nops + 1
         /\ req' = [req EXCEPT ![p] =
                      [IdleReq EXCEPT !.pc = "done", !.op = op, !.actor = actor,
                                      !.amount = amount, !.recipient = recipient,
                                      !.res = "InvalidAmount"]]
         /\ UNCHANGED <<user, balance, txs>>

\* The four routes that take an amount.
ValidatedCall ==
    \/ \E p \in Procs, u \in Users, a \in RawAmounts :
          Validated(p, "Deposit", u, a, NoCategory, NoUser)
    \/ \E p \in Procs, u \in Users, a \in RawAmounts :
          Validated(p, "Withdraw", u, a, NoCategory, NoUser)
    \/ \E p \in Procs, u \in Users, a \in RawAmounts, c \in ConcCategories :
          Validated(p, "Purchase", u, a, c, NoUser)
    \/ \E p \in Procs, u \in Users, a \in RawAmounts, c \in ConcCategories,
          t \in RecipientIds :
          Validated(p, "Transfer", u, a, c, t)

AmountNext ==
    \/ ValidatedCall
    \/ \E p \in Procs, u \in Users : check_account_balance(p, u)
    \/ \E p \in Procs : Step(p)

\* Any interleaving of requests with any amounts.
AmountSpec == Init /\ [][AmountNext]_vars

(***************************************************************************)
(* The requests of the users next to an account that takes no part: a     *)
(* third user, with a wallet, whom no request names.                       *)
(***************************************************************************)

\* A row of the user table that is neither caller nor recipient.
Bystander == "u3"

\* Every user active and verified, every wallet after one deposit of 100.
FrameInit ==
    /\ user = [u \in Users \cup {Bystander} |-> [active |-> TRUE, verified |-> TRUE]]
    /\ balance = [u \in Users \cup {Bystander} |-> 100]
    /\ txs = [u \in Users \cup {Bystander} |-> <<Transaction("Deposit", 100, NoCategory)>>]
    /\ req = [p \in Procs |-> IdleReq]
    /\ nops = 0

FrameSpec == FrameInit /\ [][Next]_vars

(***************************************************************************)
(* Operators the properties are stated with.                               *)
(***************************************************************************)

RECURSIVE SumRows(_, _)
\* The sum of the amounts of the rows of s whose type is in T.
SumRows(s, T) ==
    IF s = <<>> THEN 0
    ELSE (IF Head(s).type \in T THEN Head(s).amount ELSE 0) + SumRows(Tail(s), T)

RECURSIVE SumOver(_, _)
\* The sum of f[x] over the finite set S.
SumOver(S, f) ==
    IF S = {} THEN 0
    ELSE LET x == CHOOSE y \in S : TRUE IN f[x] + SumOver(S \ {x}, f)

TotalBalance == SumOver(Users, balance)
TotalRows(T) == SumOver(Users, [u \in Users |-> SumRows(txs[u], T)])

\* The number of rows of s of type t and amount a.
CountRows(s, t, a) ==
    Cardinality({i \in 1..Len(s) : s[i].type = t /\ s[i].amount = a})

\* The rows a step appends to the log of wallet w.
Added(w) == SubSeq(txs'[w], Len(txs[w]) + 1, Len(txs'[w]))

\* Logs only grow, at their end.
AppendOnly(w) ==
    /\ Len(txs'[w]) >= Len(txs[w])
    /\ SubSeq(txs'[w], 1, Len(txs[w])) = txs[w]

\* Request p takes a step of its handler (not the call of the route).
Moves(p) == ~Quiet(p) /\ req'[p] # req[p]

\* The flush and commit of request p succeed in this step.
Commits(p) == req[p].pc = "commit" /\ req'[p].pc = "refresh"

\* What the commit of request record r is meant to add to wallet w.
Delta(r, w) ==
    (IF w = r.actor
     THEN (IF r.op = "Deposit" THEN r.amount ELSE 0 - r.amount)
     ELSE 0)
    + (IF r.op = "Transfer" /\ w = r.recipient THEN r.amount ELSE 0)

(***************************************************************************)
(* C1  Non-negativity: under any interleaving of the requests, every       *)
(* wallet's committed balance is >= 0.                                     *)
(***************************************************************************)
C1_NonNegative == \A u \in Users : balance[u] >= 0

\* Two debits of one wallet that both read the same balance, which covers
\* only one of them, and both succeeded.
C1_Witness ==
    \E p, q \in Procs :
        /\ p # q
        /\ req[p].res = "ok" /\ req[q].res = "ok"
        /\ req[p].op \in {"Withdraw", "Purchase", "Transfer"}
        /\ req[q].op \in {"Withdraw", "Purchase", "Transfer"}
        /\ req[p].actor = req[q].actor
        /\ req[p].bal = req[q].bal
        /\ req[p].amount + req[q].amount > req[p].bal

(***************************************************************************)
(* C2  Conservation: in every committed state the sum of all balances plus *)
(* the total of the Withdraw and Purchase rows equals the total of the     *)
(* Deposit rows.                                                           *)
(***************************************************************************)
C2_Conservation ==
    TotalBalance + TotalRows({"Withdraw", "Purchase"}) = TotalRows({"Deposit"})

(***************************************************************************)
(* C3  Concurrent withdrawal safety: when two withdrawals of 60 by one     *)
(* owner have both run against the wallet at balance 100 (each loaded the  *)
(* wallet at 100) and neither met a storage failure, exactly one reports   *)
(* success, the other InsufficientFunds, the balance is 40 and one         *)
(* Withdraw row was recorded.                                              *)
(***************************************************************************)
C3_ConcurrentWithdrawals ==
    \A u \in Users :
        (/\ \A p \in Procs :
              /\ req[p].pc = "done"
              /\ req[p].op = "Withdraw" /\ req[p].actor = u /\ req[p].amount = 60
              /\ req[p].bal = 100
              /\ req[p].res # "LedgerUnavailable"
         /\ user[u].active /\ user[u].verified)
        => /\ Cardinality({p \in Procs : req[p].res = "ok"}) <= 1
           /\ \E p \in Procs : req[p].res = "InsufficientFunds"
           /\ balance[u] = 40
           /\ CountRows(txs[u], "Withdraw", 60) = 1

(***************************************************************************)
(* C4  No lost update: a commit computes the balances it writes from the   *)
(* balances the earlier commits left: every wallet's balance after the     *)
(* commit is its balance before the commit adjusted by the request's       *)
(* amount.                                                                 *)
(***************************************************************************)
C4_NoLostUpdate ==
    [][\A p \in Procs :
          Commits(p) => \A w \in Users : balance'[w] = balance[w] + Delta(req[p], w)]_vars

(***************************************************************************)
(* C5  Atomicity of transfer: every step of a transfer either makes all    *)
(* four effects visible at once (the Transfer row, the Receive row, the    *)
(* debit and the credit) or changes no balance and no log; in every state  *)
(* there are as many Receive rows of an amount as Transfer rows of it.     *)
(***************************************************************************)
TransferRowsMatch ==
    \A a \in Amounts \cup SeqAmounts :
        SumOver(Users, [u \in Users |-> CountRows(txs[u], "Transfer", a)])
        = SumOver(Users, [u \in Users |-> CountRows(txs[u], "Receive", a)])

AllFourEffects(r) ==
    /\ Added(r.actor) =
          <<Transaction("Transfer", r.amount, r.category)>>
          \o (IF r.recipient = r.actor
              THEN <<Transaction("Receive", r.amount, NoCategory)>> ELSE <<>>)
    /\ Added(r.recipient) =
          (IF r.recipient = r.actor
           THEN <<Transaction("Transfer", r.amount, r.category)>> ELSE <<>>)
          \o <<Transaction("Receive", r.amount, NoCategory)>>
    /\ r.recipient # r.actor =>
          /\ balance'[r.actor] = r.bal - r.amount
          /\ balance'[r.recipient] = r.rbal + r.amount
    /\ r.recipient = r.actor => balance'[r.actor] = balance[r.actor]

NoEffect == balance' = balance /\ txs' = txs

C5_TransferAtomic ==
    /\ []TransferRowsMatch
    /\ [][/\ \A w \in Users : AppendOnly(w)
          /\ \A p \in Procs :
                (Moves(p) /\ req[p].op = "Transfer") =>
                    \/ req[p].recipient \in Users /\ AllFourEffects(req[p])
                    \/ NoEffect]_vars

\* A transfer between two wallets has committed and returned, and another
\* transfer failed in its unit of work.
C5_Witness ==
    \E p, q \in Procs :
        /\ req[p].op = "Transfer" /\ req[p].res = "ok"
        /\ req[p].recipient \in Users \ {req[p].actor}
        /\ CountRows(txs[req[p].actor], "Transfer", req[p].amount) >= 1
        /\ CountRows(txs[req[p].recipient], "Receive", req[p].amount) >= 1
        /\ req[q].op = "Transfer" /\ req[q].res = "LedgerUnavailable"

(***************************************************************************)
(* The effect of one request, step by step.  Under SeqSpec no other        *)
(* request is in flight, so the balances a request meets at its commit are *)
(* the balances at its call.                                               *)
(***************************************************************************)

OneAtATime == Cardinality({p \in Procs : ~Quiet(p)}) <= 1

ActorOK(r) == r.ustat.active /\ r.ustat.verified

FailsWith(p, err) == req'[p].pc = "done" /\ req'[p].res = err

\* The wallets outside W keep their balance and their log.
OnlyWalletsChange(W) ==
    /\ \A w \in Users \ W : balance'[w] = balance[w] /\ txs'[w] = txs[w]
    /\ user' = user

\* The refresh and the return of a request whose commit wrote `written` to
\* the actor's wallet.
ReturnStep(p, written) ==
    /\ NoEffect
    /\ \/ FailsWith(p, "LedgerUnavailable")
       \/ /\ FailsWith(p, "ok")
          /\ req'[p].ret = written
          /\ balance[req[p].actor] = written

\* The steps of a Withdraw or a Purchase whose row is `row`.
DebitSteps(p, row) ==
    LET r == req[p]
        b == balance[r.actor]
    IN  CASE r.pc = "handler" ->
                 IF r.amount > b
                 THEN FailsWith(p, "InsufficientFunds") /\ NoEffect
                 ELSE req'[p].pc = "commit" /\ req'[p].bal = b /\ NoEffect
          [] r.pc = "commit" ->
                 \/ FailsWith(p, "LedgerUnavailable") /\ NoEffect
                 \/ /\ req'[p].pc = "refresh"
                    /\ r.bal = b
                    /\ balance'[r.actor] = b - r.amount
                    /\ txs'[r.actor] = Append(txs[r.actor], row)
                    /\ OnlyWalletsChange({r.actor})
          [] r.pc = "refresh" -> ReturnStep(p, r.bal - r.amount)
          [] OTHER -> FALSE

(***************************************************************************)
(* C6  Transfer effect: with no concurrent request, a transfer of a with   *)
(* category c by an active, verified sender with balance s >= a to another *)
(* active, verified user with balance r passes every check, commits        *)
(* s - a and r + a with exactly a Transfer row (a, c) on the sender's      *)
(* wallet and a Receive row (a, no category) on the recipient's, changes   *)
(* nothing in its other steps, and returns s - a.                          *)
(***************************************************************************)
TransferCase(r) ==
    /\ r.op = "Transfer" /\ ActorOK(r)
    /\ r.recipient \in Users \ {r.actor}
    /\ user[r.recipient].active /\ user[r.recipient].verified
    /\ r.pc = "handler" => r.amount <= balance[r.actor]

TransferSteps(p) ==
    LET r == req[p]
        s == balance[r.actor]
        t == balance[r.recipient]
    IN  CASE r.pc = "handler" -> req'[p].pc = "recipient" /\ req'[p].bal = s /\ NoEffect
          [] r.pc = "recipient" -> req'[p].pc = "rwallet" /\ NoEffect
          [] r.pc = "rwallet" -> req'[p].pc = "commit" /\ req'[p].rbal = t /\ NoEffect
          [] r.pc = "commit" ->
                 \/ FailsWith(p, "LedgerUnavailable") /\ NoEffect
                 \/ /\ req'[p].pc = "refresh"
                    /\ r.bal = s /\ r.rbal = t
                    /\ balance'[r.actor] = s - r.amount
                    /\ balance'[r.recipient] = t + r.amount
                    /\ txs'[r.actor] =
                          Append(txs[r.actor], Transaction("Transfer", r.amount, r.category))
                    /\ txs'[r.recipient] =
                          Append(txs[r.recipient], Transaction("Receive", r.amount, NoCategory))
                    /\ OnlyWalletsChange({r.actor, r.recipient})
          [] r.pc = "refresh" -> ReturnStep(p, r.bal - r.amount)
          [] OTHER -> FALSE

C6_TransferEffect ==
    /\ []OneAtATime
    /\ [][\A p \in Procs : (Moves(p) /\ TransferCase(req[p])) => TransferSteps(p)]_vars

\* A transfer between two wallets has returned the sender's balance, and
\* its two rows are the last of the two logs.
C6_Witness ==
    \E p \in Procs :
        LET r == req[p] IN
        /\ r.op = "Transfer" /\ r.res = "ok" /\ r.recipient \in Users \ {r.actor}
        /\ r.ret = r.bal - r.amount /\ balance[r.actor] = r.ret
        /\ txs[r.actor][Len(txs[r.actor])] = Transaction("Transfer", r.amount, r.category)
        /\ txs[r.recipient][Len(txs[r.recipient])] =
              Transaction("Receive", r.amount, NoCategory)
        /\ r.category \in Categories

(***************************************************************************)
(* C7  Deposit effect: with no concurrent request, a deposit of a by an    *)
(* active, verified owner with balance b passes the handler's head         *)
(* whatever b and a are, commits b + a with exactly one Deposit row        *)
(* (a, no category), changes nothing in its other steps, and returns       *)
(* b + a.                                                                  *)
(***************************************************************************)
DepositSteps(p) ==
    LET r == req[p]
        b == balance[r.actor]
    IN  CASE r.pc = "handler" -> req'[p].pc = "commit" /\ req'[p].bal = b /\ NoEffect
          [] r.pc = "commit" ->
                 \/ FailsWith(p, "LedgerUnavailable") /\ NoEffect
                 \/ /\ req'[p].pc = "refresh"
                    /\ r.bal = b
                    /\ balance'[r.actor] = b + r.amount
                    /\ txs'[r.actor] =
                          Append(txs[r.actor], Transaction("Deposit", r.amount, NoCategory))
                    /\ OnlyWalletsChange({r.actor})
          [] r.pc = "refresh" -> ReturnStep(p, r.bal + r.amount)
          [] OTHER -> FALSE

C7_DepositEffect ==
    /\ []OneAtATime
    /\ [][\A p \in Procs :
            (Moves(p) /\ req[p].op = "Deposit" /\ ActorOK(req[p])) => DepositSteps(p)]_vars

\* A deposit into a wallet that was not empty has returned the sum.
C7_Witness ==
    \E p \in Procs :
        LET r == req[p] IN
        /\ r.op = "Deposit" /\ r.res = "ok" /\ r.bal > 0
        /\ r.ret = r.bal + r.amount /\ balance[r.actor] = r.ret
        /\ txs[r.actor][Len(txs[r.actor])] = Transaction("Deposit", r.amount, NoCategory)

(***************************************************************************)
(* C8  Withdraw effect and boundary: a withdrawal of a by an active,       *)
(* verified owner with balance b fails with InsufficientFunds exactly      *)
(* when a > b; otherwise (a = b included) it commits b - a with exactly    *)
(* one Withdraw row of amount a and returns b - a.                         *)
(***************************************************************************)
C8_WithdrawEffect ==
    /\ []OneAtATime
    /\ [][\A p \in Procs :
            (Moves(p) /\ req[p].op = "Withdraw" /\ ActorOK(req[p])) =>
                DebitSteps(p, Transaction("Withdraw", req[p].amount, NoCategory))]_vars

\* A withdrawal of the whole balance has succeeded and left 0.
C8_Witness ==
    \E p \in Procs :
        LET r == req[p] IN
        /\ r.op = "Withdraw" /\ r.res = "ok"
        /\ r.amount = r.bal /\ r.ret = 0 /\ balance[r.actor] = 0
        /\ txs[r.actor][Len(txs[r.actor])] = Transaction("Withdraw", r.amount, NoCategory)

(***************************************************************************)
(* C9  Purchase effect: a purchase of a with category c follows the funds  *)
(* rule of Withdraw and on success commits the balance less a with         *)
(* exactly one Purchase row (a, c) and returns the new balance; Deposit    *)
(* 500 then Purchase (120, "Rent") on a wallet starting at 0 ends at 380   *)
(* with the log <<Deposit 500, Purchase 120 "Rent">>.                      *)
(***************************************************************************)
ScenarioLog ==
    <<Transaction("Deposit", 500, NoCategory), Transaction("Purchase", 120, "Rent")>>

C9_PurchaseEffect ==
    /\ []OneAtATime
    /\ [](\A u \in Users : txs[u] = ScenarioLog => balance[u] = 380)
    /\ [][\A p \in Procs :
            (Moves(p) /\ req[p].op = "Purchase" /\ ActorOK(req[p])) =>
                /\ DebitSteps(p, Transaction("Purchase", req[p].amount, req[p].category))
                /\ (req[p].amount = 120 /\ req[p].category = "Rent"
                    /\ txs[req[p].actor] = <<Transaction("Deposit", 500, NoCategory)>>
                    /\ req'[p].pc = "refresh")
                   => txs'[req[p].actor] = ScenarioLog /\ balance'[req[p].actor] = 380]_vars

\* The scenario has run: the purchase returned 380.
C9_Witness ==
    \E p \in Procs :
        LET r == req[p] IN
        /\ r.op = "Purchase" /\ r.res = "ok" /\ r.amount = 120 /\ r.category = "Rent"
        /\ r.bal = 500 /\ r.ret = 380 /\ balance[r.actor] = 380
        /\ txs[r.actor] = ScenarioLog

(***************************************************************************)
(* C10  Insufficient funds leaves state unchanged: a request ends with     *)
(* InsufficientFunds in the first step of its handler; neither that step   *)
(* nor the call of the route before it changes a balance, a log or a user. *)
(***************************************************************************)
C10_InsufficientFundsNoEffect ==
    [][\A p \in Procs :
          /\ (req[p].pc # "done" /\ FailsWith(p, "InsufficientFunds")) =>
                /\ req[p].pc = "handler"
                /\ req[p].op \in {"Withdraw", "Purchase", "Transfer"}
                /\ NoEffect /\ user' = user
          /\ (Quiet(p) /\ req'[p].pc = "handler") => NoEffect /\ user' = user]_vars

\* A transfer and a withdrawal or purchase have both been refused.
C10_Witness ==
    \E p, q \in Procs :
        /\ req[p].op = "Transfer" /\ req[p].res = "InsufficientFunds"
        /\ req[q].op \in {"Withdraw", "Purchase"} /\ req[q].res = "InsufficientFunds"

(***************************************************************************)
(* C11  Validation order of Transfer: for every combination of actor       *)
(* status, sender balance, recipient existence and recipient status, the   *)
(* error a transfer ends with (other than the database error) is the first *)
(* failing check in the order actor inactive, actor unverified,            *)
(* insufficient funds, recipient not found, recipient inactive, recipient  *)
(* unverified; it reaches its commit only when no check fails.             *)
(***************************************************************************)
FirstFailing(r) ==
    IF ~user[r.actor].active THEN "ActorInactive"
    ELSE IF ~user[r.actor].verified THEN "ActorUnverified"
    ELSE IF r.amount > balance[r.actor] THEN "InsufficientFunds"
    ELSE IF r.recipient \notin Users THEN "RecipientNotFound"
    ELSE IF ~user[r.recipient].active THEN "RecipientInactive"
    ELSE IF ~user[r.recipient].verified THEN "RecipientUnverified"
    ELSE "none"

C11_TransferValidationOrder ==
    /\ []OneAtATime
    /\ [][\A p \in Procs :
            (Moves(p) /\ req[p].op = "Transfer"
                      /\ req[p].pc \in {"handler", "recipient", "rwallet"}) =>
                LET e == FirstFailing(req[p]) IN
                /\ req'[p].pc = "done" => req'[p].res = e /\ e # "none"
                /\ req'[p].pc = "commit" => e = "none"
                /\ (e \in {"ActorInactive", "ActorUnverified", "InsufficientFunds"}
                    /\ req[p].pc = "handler") => FailsWith(p, e)
                /\ (e # "none" /\ req[p].pc = "recipient") => FailsWith(p, e)]_vars

\* A transfer to a user who is both inactive and unverified has been
\* refused with the first of the two errors.
C11_Witness ==
    \E p \in Procs :
        /\ req[p].op = "Transfer" /\ req[p].res = "RecipientInactive"
        /\ ~user[req[p].recipient].verified

(***************************************************************************)
(* C12  Rejected recipient leaves state unchanged: a transfer by an        *)
(* active, verified sender with the funds to an inactive recipient fails   *)
(* with RecipientInactive; and no step of a transfer that ends with        *)
(* RecipientNotFound, RecipientInactive or RecipientUnverified, from its   *)
(* call on, changes a balance, a log or a user.                            *)
(***************************************************************************)
RecipientErrors == {"RecipientNotFound", "RecipientInactive", "RecipientUnverified"}

C12_RejectedRecipientNoEffect ==
    /\ []OneAtATime
    /\ [][\A p \in Procs :
            /\ (Moves(p) /\ req[p].op = "Transfer" /\ req[p].pc = "recipient"
                /\ req[p].recipient \in Users /\ ~user[req[p].recipient].active)
               => FailsWith(p, "RecipientInactive")
            /\ (Moves(p) /\ req'[p].res \in RecipientErrors)
               => req[p].pc = "recipient" /\ NoEffect /\ user' = user
            /\ ((Moves(p) \/ Quiet(p)) /\ req'[p].op = "Transfer"
                /\ req'[p].pc \in {"handler", "recipient"})
               => NoEffect /\ user' = user]_vars

\* A sender with the funds has been refused on an inactive recipient.
C12_Witness ==
    \E p \in Procs :
        /\ req[p].op = "Transfer" /\ req[p].res = "RecipientInactive"
        /\ user[req[p].actor].active /\ user[req[p].actor].verified
        /\ balance[req[p].actor] >= req[p].amount
        /\ ~user[req[p].recipient].active

(***************************************************************************)
(* C13  Actor status precondition: every operation of the ledger           *)
(* (Deposit, Withdraw, Purchase, Transfer, GetBalance) called with an      *)
(* actor who is inactive or unverified fails in its first step with the    *)
(* actor-status error, with no wallet loaded into its session, and changes *)
(* no balance, no log and no user.                                         *)
(***************************************************************************)
C13_ActorStatusPrecondition ==
    /\ [](\A p \in Procs :
            req[p].pc \in {"recipient", "rwallet", "commit", "refresh"} => ActorOK(req[p]))
    /\ [][\A p \in Procs :
            (Moves(p) /\ req[p].pc = "handler" /\ ~ActorOK(req[p])) =>
                /\ req'[p].pc = "done"
                /\ req'[p].res \in {"ActorInactive", "ActorUnverified"}
                /\ req'[p].bal = IdleReq.bal /\ req'[p].ret = IdleReq.ret
                /\ NoEffect /\ user' = user]_vars

\* A balance query by an unverified owner of a funded wallet has been
\* refused.
C13_Witness ==
    \E p \in Procs :
        /\ req[p].op = "GetBalance" /\ req[p].res = "ActorUnverified"
        /\ user[req[p].actor].active /\ ~user[req[p].actor].verified
        /\ balance[req[p].actor] > 0

(***************************************************************************)
(* C14  Failure semantics: whenever a mutating operation reports           *)
(* LedgerUnavailable, the committed balances and logs are those from       *)
(* before the operation began: the step that reports it changes nothing,   *)
(* and the request has not committed before it (a request at its           *)
(* read-back, pc = "refresh", has).                                        *)
(***************************************************************************)
C14_FailureSemantics ==
    [][\A p \in Procs :
          (Moves(p) /\ FailsWith(p, "LedgerUnavailable")) =>
              NoEffect /\ req[p].pc # "refresh"]_vars

(***************************************************************************)
(* C15  GetBalance is a pure read: no step of a balance query changes a    *)
(* balance, a log or a user; it returns the stored balance of the actor's  *)
(* wallet; and when the only two requests of a behaviour are balance       *)
(* queries of one owner, both return the same value, the stored balance.   *)
(***************************************************************************)
C15_GetBalancePure ==
    /\ [](\A p, q \in Procs :
            (/\ nops = 2 /\ p # q
             /\ req[p].op = "GetBalance" /\ req[p].res = "ok"
             /\ req[q].op = "GetBalance" /\ req[q].res = "ok"
             /\ req[p].actor = req[q].actor)
            => req[p].ret = req[q].ret /\ req[p].ret = balance[req[p].actor])
    /\ [][\A p \in Procs :
            ((Moves(p) \/ Quiet(p)) /\ req'[p].op = "GetBalance" /\ req'[p] # req[p]) =>
                /\ NoEffect /\ user' = user
                /\ req'[p].res = "ok" => req'[p].ret = balance[req[p].actor]]_vars

\* Two balance queries of a funded wallet have both returned its balance.
C15_Witness ==
    \E p, q \in Procs :
        /\ p # q /\ nops = 2
        /\ req[p].op = "GetBalance" /\ req[p].res = "ok"
        /\ req[q].op = "GetBalance" /\ req[q].res = "ok"
        /\ req[p].actor = req[q].actor
        /\ req[p].ret = 100 /\ req[q].ret = 100

(***************************************************************************)
(* C16  Transaction log is append-only and immutable: after ledger         *)
(* requests and account requests (signup, deactivation, activation,        *)
(* deletion) in any order, every step leaves every wallet's log in place   *)
(* with the rows it had, unchanged and in the same positions.              *)
(***************************************************************************)
C16_LogImmutable ==
    [][\A w \in DOMAIN txs : w \in DOMAIN txs' /\ AppendOnly(w)]_vars

(***************************************************************************)
(* C17  Wallet lifecycle: in every state the users and the wallets are     *)
(* the same set of owners; every step of a signup either adds, for an      *)
(* email that has no user, the user together with a wallet of balance 0    *)
(* and an empty log, or changes no table; only a signup adds a user or a   *)
(* wallet; and a wallet disappears only in the step of a deletion that     *)
(* removes its owner.                                                      *)
(***************************************************************************)
TablesUnchanged == user' = user /\ balance' = balance /\ txs' = txs

Creates(u) ==
    /\ u \notin DOMAIN user /\ u \notin DOMAIN balance
    /\ user' = Insert(user, u, [active |-> TRUE, verified |-> FALSE])
    /\ balance' = Insert(balance, u, 0)
    /\ txs' = Insert(txs, u, <<>>)

C17_WalletLifecycle ==
    /\ [](DOMAIN balance = DOMAIN user /\ DOMAIN txs = DOMAIN user)
    /\ [][/\ \A p \in Procs :
                (Moves(p) /\ req[p].op = "Signup") => Creates(req[p].actor) \/ TablesUnchanged
          /\ \A u \in Users :
                (u \in DOMAIN user' \ DOMAIN user \/ u \in DOMAIN balance' \ DOMAIN balance) =>
                    \E p \in Procs : Moves(p) /\ req[p].op = "Signup" /\ req[p].actor = u
          /\ \A u \in DOMAIN balance \ DOMAIN balance' :
                /\ u \in DOMAIN user /\ u \notin DOMAIN user'
                /\ \E p \in Procs : Moves(p) /\ req[p].op = "Delete" /\ req[p].actor = u]_vars

\* Two signups with one email have ended: one created the account, with a
\* wallet of balance 0 and no row, the other was refused.
C17_Witness ==
    \E p, q \in Procs :
        /\ req[p].op = "Signup" /\ req[p].res = "ok"
        /\ req[q].op = "Signup" /\ req[q].res = "RegistrationError"
        /\ req[p].actor = req[q].actor
        /\ req[p].actor \in DOMAIN user /\ req[p].actor \in DOMAIN balance
        /\ balance[req[p].actor] = 0 /\ txs[req[p].actor] = <<>>

(***************************************************************************)
(* C18  Category by kind: in every state, every transaction row has kind   *)
(* Deposit, Withdraw, Purchase, Transfer or Receive; every Purchase and    *)
(* Transfer row carries a category and every Deposit, Withdraw and Receive *)
(* row carries none.                                                       *)
(***************************************************************************)
C18_CategoryByKind ==
    \A u \in DOMAIN txs : \A i \in 1..Len(txs[u]) :
        /\ txs[u][i].type \in {"Deposit", "Withdraw", "Purchase", "Transfer", "Receive"}
        /\ txs[u][i].type \in {"Purchase", "Transfer"} => txs[u][i].category \in Categories
        /\ txs[u][i].type \in {"Deposit", "Withdraw", "Receive"} =>
              txs[u][i].category = NoCategory

\* Rows of four kinds are in the logs.
C18_Witness ==
    \A t \in {"Deposit", "Purchase", "Transfer", "Receive"} :
        \E u \in DOMAIN txs : \E i \in 1..Len(txs[u]) : txs[u][i].type = t

(***************************************************************************)
(* C19  Exact decimal arithmetic.  After any sequence of deposits,         *)
(* withdrawals, purchases and transfers with amounts in cents, the balance *)
(* of every wallet is the exact decimal sum of its credits minus its       *)
(* debits: the balance the database holds is the one the decimal net of    *)
(* the wallet's rows is written as, with no rounding drift.                *)
(***************************************************************************)

\* Credits minus debits of the rows of wallet w, in cents.
NetCents(w) ==
    SumRows(txs[w], {"Deposit", "Receive"})
        - SumRows(txs[w], {"Withdraw", "Purchase", "Transfer"})

C19_ExactDecimalBalance ==
    \A w \in Users : NetCents(w) >= 0 /\ balance[w] = ToFloat(NetCents(w))

(***************************************************************************)
(* C20  No deadlock on crossing transfers.  When two transfers run at the  *)
(* same time over the same pair of wallets in opposite directions, then    *)
(* under fair scheduling each of them eventually returns, with success or  *)
(* with a typed error; neither waits forever on the other.                 *)
(***************************************************************************)

\* Both requests are transfers in flight, each to the other's sender.
Crossing ==
    /\ \A p \in Procs : req[p].op = "Transfer" /\ ~Quiet(p)
    /\ req[1].actor # req[2].actor
    /\ req[1].recipient = req[2].actor /\ req[2].recipient = req[1].actor

Returned(p) == req[p].pc = "done" /\ req[p].res \in Errors \cup {"ok"}

C20_CrossingTransfersReturn == \A p \in Procs : Crossing ~> Returned(p)

\* Two crossing transfers of 60 between wallets of 100 each have both
\* returned with success, and the balances are those only an overlap of the
\* two leaves: each read both balances before the other committed.
C20_Witness ==
    /\ \A p \in Procs : Returned(p) /\ req[p].res = "ok" /\ req[p].op = "Transfer"
                        /\ req[p].amount = 60
    /\ req[1].actor # req[2].actor
    /\ req[1].recipient = req[2].actor /\ req[2].recipient = req[1].actor
    /\ Len(txs["u1"]) = 3 /\ Len(txs["u2"]) = 3
    /\ balance["u1"] # 100

(***************************************************************************)
(* C21  One application per invocation.  A Deposit, Withdraw, Purchase or  *)
(* Transfer attempts its commit at most once: only a commit changes a      *)
(* balance or a log, and after its commit a request only returns.  One     *)
(* that reports success has committed, adding one row (two for Transfer)   *)
(* and changing each balance by its amount; one that reports an error has  *)
(* not committed, so it has added no row.                                  *)
(***************************************************************************)

\* The rows a step adds, over all wallets.
RowsAdded == SumOver(Users, [w \in Users |-> Len(Added(w))])

C21_OneApplication ==
    [][\A p \in Procs :
          (Moves(p) /\ req[p].op # "GetBalance") =>
              /\ \A w \in Users : AppendOnly(w)
              /\ ~NoEffect => Commits(p)
              /\ Commits(p) =>
                    /\ RowsAdded = (IF req[p].op = "Transfer" THEN 2 ELSE 1)
                    /\ \A w \in Users : balance'[w] = balance[w] + Delta(req[p], w)
              /\ req[p].pc = "refresh" => req'[p].pc = "done" /\ NoEffect
              /\ FailsWith(p, "ok") => req[p].pc = "refresh"
              /\ (req'[p].pc = "done" /\ req'[p].res \in Errors) => req[p].pc # "refresh"]_vars

NonPositiveRejected ==
    \A p \in Procs :
        (req[p].op \in {"Deposit", "Withdraw", "Purchase", "Transfer"} /\ req[p].amount <= 0)
        => req[p].pc = "done" /\ req[p].res = "InvalidAmount"

RowsPositive == \A w \in DOMAIN txs : \A i \in 1..Len(txs[w]) : txs[w][i].amount > 0

\* The step that rejects a request changes no balance and no log.
RejectionNoEffect ==
    [][(\E p \in Procs : req'[p] # req[p] /\ req'[p].res = "InvalidAmount") => NoEffect]_vars

\* No step of a debiting request raises the balance of its wallet.
DebitNeverIncreases ==
    [][\A p \in Procs :
          (Moves(p) /\ req[p].op \in {"Withdraw", "Purchase", "Transfer"})
          => balance'[req[p].actor] <= balance[req[p].actor]]_vars

C23_PositiveAmounts ==
    /\ []NonPositiveRejected
    /\ []RowsPositive
    /\ RejectionNoEffect
    /\ DebitNeverIncreases

(***************************************************************************)
(* C24  Ledger consistency per wallet.  When the operations execute one at *)
(* a time and no account is deleted, in every reachable state each         *)
(* wallet's balance equals the sum of the amounts of its Deposit and       *)
(* Receive rows minus the sum of the amounts of its Withdraw, Purchase and *)
(* Transfer rows.  The sums are taken over the amounts as the rows hold    *)
(* them, in the order of the rows.                                         *)
(***************************************************************************)

RECURSIVE FloatSumRows(_, _)
\* The sum of the amounts of the rows of s whose type is in T.
FloatSumRows(s, T) ==
    IF s = <<>> THEN FloatZero
    ELSE LET n == Len(s)
             front == FloatSumRows(SubSeq(s, 1, n - 1), T)
         IN  IF s[n].type \in T THEN FloatAdd(front, ToFloat(s[n].amount)) ELSE front

C24_BalanceIsSumOfRows ==
    \A w \in Users :
        LET credits == FloatSumRows(txs[w], {"Deposit", "Receive"})
            debits == FloatSumRows(txs[w], {"Withdraw", "Purchase", "Transfer"})
        IN  /\ ~FloatGreater(debits, credits)
            /\ balance[w] = FloatSub(credits, debits)

(***************************************************************************)
(* C25  Self-transfer.  A Transfer whose recipient is the sender, by an    *)
(* active, verified sender with balance b >= amount, appends a Transfer    *)
(* row and a Receive row of that amount to the one wallet and leaves its   *)
(* balance at b.                                                           *)
(***************************************************************************)
C25_SelfTransfer ==
    [][\A w \in Users, a \in Cents, k \in ConcCategories :
          (Added(w) = <<Transaction("Transfer", a, k), Transaction("Receive", a, NoCategory)>>)
          => balance'[w] = balance[w]]_vars

(***************************************************************************)
(* C26  Frame of the mutating operations.  Deposit, Withdraw and Purchase  *)
(* by user U change only the balance and the log of U's wallet, Transfer   *)
(* from U to V only those of U's and V's wallets: no step of a request     *)
(* changes the balance or the log of any other wallet, or the active or    *)
(* verified status of any user.                                            *)
(***************************************************************************)
C26_Frame ==
    [][\A p \in Procs :
          Moves(p) =>
              /\ user' = user
              /\ DOMAIN balance' = DOMAIN balance /\ DOMAIN txs' = DOMAIN txs
              /\ \A w \in DOMAIN balance :
                    (\/ w # req[p].actor /\ req[p].op \in {"Deposit", "Withdraw", "Purchase"}
                     \/ w \notin {req[p].actor, req[p].recipient} /\ req[p].op = "Transfer")
                    => balance'[w] = balance[w] /\ txs'[w] = txs[w]]_vars

\* A deposit by u1 and a transfer from u1 to u2 have committed and
\* returned; the wallet of the third user is as it was.
C26_Witness ==
    \E p, q \in Procs :
        /\ req[p].op = "Deposit" /\ req[p].actor = "u1" /\ req[p].res = "ok"
        /\ req[q].op = "Transfer" /\ req[q].actor = "u1" /\ req[q].recipient = "u2"
        /\ req[q].res = "ok"
        /\ Len(txs["u1"]) = 3 /\ Len(txs["u2"]) = 2
        /\ balance[Bystander] = 100 /\ Len(txs[Bystander]) = 1

(***************************************************************************)
(* C27  Returned balance.  The wallet_balance a successful Deposit,        *)
(* Withdraw, Purchase or Transfer returns is the balance its own commit    *)
(* stored for the caller's wallet, that is the balance it read plus or     *)
(* minus its amount, also when other requests commit on the same wallet    *)
(* between that commit and the read-back.                                  *)
(***************************************************************************)
C27_ReturnsOwnCommit ==
    [][\A p \in Procs :
          (/\ Moves(p) /\ FailsWith(p, "ok")
           /\ req[p].op \in {"Deposit", "Withdraw", "Purchase", "Transfer"})
          => req'[p].ret = req[p].bal + Delta(req[p], req[p].actor)]_vars

(***************************************************************************)
(* C28  Recipient status at commit.  No Transfer commits a credit to a     *)
(* wallet whose owner is inactive at the moment of that commit, also when  *)
(* an admin's deactivation of the recipient commits between the transfer's *)
(* check of the recipient and the transfer's commit.  Stated of the        *)
(* transfers to another user's wallet.                                     *)
(***************************************************************************)
C28_RecipientActiveAtCommit ==
    [][\A p \in Procs :
          (Commits(p) /\ req[p].op = "Transfer" /\ req[p].recipient # req[p].actor)
          => req[p].recipient \in DOMAIN user /\ user[req[p].recipient].active]_vars

(***************************************************************************)
(* C29  Deletion requires deactivation.  Account deletion succeeds only    *)
(* for a user who is inactive, so the wallet of an active user is never    *)
(* removed; a successful deletion removes the user, the user's wallet and  *)
(* every transaction row of that wallet in one commit and changes no other *)
(* wallet's balance.                                                       *)
(***************************************************************************)
C29_DeletionRequiresDeactivation ==
    [][\A u \in DOMAIN user :
          (u \notin DOMAIN user' \/ u \notin DOMAIN balance' \/ u \notin DOMAIN txs')
          => /\ ~user[u].active
             /\ u \notin DOMAIN user' /\ u \notin DOMAIN balance' /\ u \notin DOMAIN txs'
             /\ \A w \in DOMAIN balance \ {u} :
                   w \in DOMAIN balance' /\ balance'[w] = balance[w] /\ txs'[w] = txs[w]]_vars

(***************************************************************************)
(* C30  Status precedence.  When a user is both inactive and unverified,   *)
(* the error reported is the inactive one and never the unverified one:    *)
(* "User is not active" for the actor of every ledger operation,           *)
(* RecipientInactive for the recipient of a Transfer.                      *)
(***************************************************************************)
Neither(u) == ~u.active /\ ~u.verified

C30_StatusPrecedence ==
    /\ [](\A p \in Procs :
            /\ req[p].res = "ActorUnverified" => user[req[p].actor].active
            /\ req[p].res = "RecipientUnverified" => user[req[p].recipient].active)
    /\ [][\A p \in Procs :
            Moves(p) =>
                /\ (req[p].pc = "handler" /\ Neither(req[p].ustat))
                   => FailsWith(p, "ActorInactive")
                /\ (req[p].pc = "recipient" /\ req[p].recipient \in DOMAIN user
                    /\ Neither(user[req[p].recipient]))
                   => FailsWith(p, "RecipientInactive")]_vars

\* A deposit by a user who is both inactive and unverified has been refused
\* as inactive.
C30_Witness ==
    \E p \in Procs :
        /\ req[p].op = "Deposit" /\ req[p].res = "ActorInactive"
        /\ Neither(user[req[p].actor])

====
